---- MODULE Spec2Model ----
(***************************************************************************)
(* The 8-to-9 repository migration of fs-repo-migrations: CidSwapper       *)
(* (swapper.go) and Migration.Apply / Migration.Revert (migration.go).     *)
(*                                                                         *)
(* A ds.Key is a sequence of segments.  The datastore is a partial         *)
(* function from keys to values: `store` is what Get sees, `disk` is what  *)
(* the last successful Sync made durable.  Every store operation is one    *)
(* atomic step of the worker that issues it.                               *)
(***************************************************************************)
EXTENDS Integers, Sequences, FiniteSets, TLC

\* ------------------------------------------------------------------ bounds
\* How many store operations (Query, Get, Put, Delete, Sync) or log reads may
\* fail in one behaviour.
MaxFails == 1
\* How many times the process may be killed in one behaviour.
MaxKills == 1
\* Capacity of the bufio.Writer of the log, in tokens (a key, or a newline).
BufSize == 3

\* -------------------------------------------------------- program constants
\* var NWorkers, the number of goroutines of a Run.  It is a tunable the
\* callers set (4 when they do not); the model runs Run with two.
NWorkers == 2
\* make(chan Swap, 1000)
SwapChCap == 1000
\* var SyncSize (a tunable; 20 MiB by default): the thresholds the model runs
\* with, in bytes.  1: every swap of a non-empty value flushes.
SyncSizes == {1, 3}

Workers == 1..NWorkers

\* --------------------------------------------------------------------- keys
blocks == <<"blocks">>
filestore == <<"filestore">>
migrationPrefixes == <<blocks, filestore>>

\* ds.Key.Parent, ds.Key.BaseNamespace, ds.Key.Child
Parent(k) == SubSeq(k, 1, Len(k) - 1)
BaseNamespace(k) == k[Len(k)]
Child(p, c) == p \o c
\* The keys a prefix query lists.
IsUnder(k, prefix) ==
    /\ Len(k) > Len(prefix)
    /\ SubSeq(k, 1, Len(prefix)) = prefix

\* ---------------------------------------------------------------- key codec
\* The segments of the model.  "bafA1", "bafB1" and "bafC1" are version-1 CIDs
\* (codecs A, B and C) of the multihash h1, "bafA2" a version-1 CID of h2;
\* "Qm1", "Qm2" are the base32 multihashes h1, h2 themselves, which is also
\* how the version-0 CID of that hash is written; "junk" decodes to no CID.
NoCid == [err |-> TRUE, version |-> 0, hash |-> ""]
Cid(ver, h) == [err |-> FALSE, version |-> ver, hash |-> h]

\* dshelp.BinaryFromDsKey followed by cid.Cast, on a one-segment key.
dsKeyToCid(dsKey) ==
    LET s == dsKey[1]
    IN  CASE s = "bafA1" -> Cid(1, "h1")
          [] s = "bafB1" -> Cid(1, "h1")
          [] s = "bafC1" -> Cid(1, "h1")
          [] s = "bafA2" -> Cid(1, "h2")
          [] s = "Qm1"   -> Cid(0, "h1")
          [] s = "Qm2"   -> Cid(0, "h2")
          [] OTHER       -> NoCid

\* dshelp.MultihashToDsKey
MultihashToDsKey(mh) == IF mh = "h1" THEN <<"Qm1">> ELSE <<"Qm2">>

\* Swap{Old, New}
Swap(old, new) == [Old |-> old, New |-> new]

\* A bug: the version of the CID is not looked at.
Classify_AnyVersion(oldKey) ==
    LET c == dsKeyToCid(<<BaseNamespace(oldKey)>>)
    IN  IF c.err
        THEN [skip |-> TRUE, newKey |-> <<>>]
        ELSE [skip |-> FALSE,
              newKey |-> Child(Parent(oldKey), MultihashToDsKey(c.hash))]

\* What swapWorker decides for one key of the query result: skip it (not a
\* CID, or a version-0 CID), or swap it for its parent namespace + multihash.
Classify(oldKey) ==
    LET c == dsKeyToCid(<<BaseNamespace(oldKey)>>)
    IN  IF c.err \/ c.version = 0
        THEN [skip |-> TRUE, newKey |-> <<>>]
        ELSE [skip |-> FALSE,
              newKey |-> Child(Parent(oldKey), MultihashToDsKey(c.hash))]

\* ---------------------------------------------------------------- the store
\* The keys a store of the model may hold at the start, in the order a query
\* lists them.
KeyOrder ==
    << <<"blocks", "Qm1">>, <<"blocks", "bafA1">>, <<"blocks", "bafA2">>,
       <<"blocks", "bafB1">>, <<"blocks", "junk">>,
       <<"filestore", "bafA1">> >>
Universe == {KeyOrder[i] : i \in 1..Len(KeyOrder)}

\* The store is content addressed: the value under a CID or multihash key is
\* the block with that hash.  The block of h1 is 2 bytes long, that of h2 1.
Content(k) ==
    LET c == dsKeyToCid(<<BaseNamespace(k)>>)
    IN  IF c.err THEN <<9>>
        ELSE IF c.hash = "h1" THEN <<1, 1>> ELSE <<2>>

Restrict(f, S) == [k \in S |-> f[k]]
Has(s, k) == k \in DOMAIN s
PutKV(s, k, v) == [x \in (DOMAIN s) \cup {k} |-> IF x = k THEN v ELSE s[x]]
DelK(s, k) == Restrict(s, (DOMAIN s) \ {k})
\* ds.Sync(prefix): what is under the prefix becomes durable as it stands.
Synced(s, d, prefix) ==
    LET keep == {k \in DOMAIN d : ~IsUnder(k, prefix)}
        take == {k \in DOMAIN s : IsUnder(k, prefix)}
    IN  [k \in keep \cup take |-> IF k \in take THEN s[k] ELSE d[k]]

RECURSIVE SelectKeys(_, _, _)
\* The keys of s under the prefix, in query order, from position i on.
SelectKeys(s, prefix, i) ==
    IF i > Len(KeyOrder) THEN <<>>
    ELSE IF Has(s, KeyOrder[i]) /\ IsUnder(KeyOrder[i], prefix)
         THEN <<KeyOrder[i]>> \o SelectKeys(s, prefix, i + 1)
         ELSE SelectKeys(s, prefix, i + 1)

\* query.Result{Key} and query.Result{Error}
Result(k) == [Key |-> k, Error |-> FALSE]
ErrResult == [Key |-> <<>>, Error |-> TRUE]
\* Store.Query(prefix, KeysOnly): the result stream of a query that works.
QueryResults(s, prefix) ==
    LET ks == SelectKeys(s, prefix, 1)
    IN  [i \in 1..Len(ks) |-> Result(ks[i])]

\* -------------------------------------------------------------------- state
VARIABLES
    store,          \* the datastore as Get, Put, Delete and Query see it
    disk,           \* the datastore as of the last successful Sync of each prefix
    fails,          \* failures injected so far
    kills,          \* process kills so far
    SyncSize,       \* var SyncSize
    mode,           \* the CidSwapper call in progress: "none", "run", "revert"
    cswap,          \* CidSwapper{Prefix, SwapCh}: SwapCh is TRUE when set
    dryRun,         \* Run's argument
    resultsCh,      \* results.Next(): the query results not yet taken
    unswapCh,       \* the records sent to Revert and not yet taken
    unswapClosed,   \* close(unswapCh) has happened
    sw,             \* per worker: its position and its swapWorker
    unswappedMap,   \* unswapWorker's map from multihash key to CID key
    total,          \* runWorkers: total
    nErrors,        \* runWorkers: nErrors
    ret,            \* what the last CidSwapper call returned
    SwapCh,         \* the records in the channel cswap.SwapCh
    sent,           \* history: every record sent on SwapCh by the current call
    mutated,        \* history: the old keys a real Run has Put elsewhere or deleted
    plan,           \* the calls the caller still makes, in order
    store0,         \* history: the store at the start
    hist,           \* history: the calls that ended, with what they returned
    mpc,            \* where Migration.Apply or Migration.Revert stands
    pidx,           \* Apply: the position in migrationPrefixes
    file,           \* the log 8-to-9-cids.txt: the tokens written to it
    fileExists,     \* the log exists
    buf,            \* Apply: the tokens in the bufio.Writer, not yet in the file
    swapClosed,     \* Apply: close(swapCh) has happened
    writingDone,    \* Apply: close(writingDone) has happened
    version,        \* the repository's version file
    renamed,        \* the log has been renamed to 8-to-9-cids.txt.reverted
    scanQ,          \* Revert: the lines of the log the scanner has not read
    scannerErr,     \* Revert: scannerErr is set
    scanCut         \* history: the scanner stopped before the end of the log

engineVars ==
    <<mode, cswap, dryRun, resultsCh, unswapCh, unswapClosed, sw,
      unswappedMap, total, nErrors, ret, SwapCh, sent>>
migVars ==
    <<mpc, pidx, file, fileExists, buf, swapClosed, writingDone, version,
      renamed, scanQ, scannerErr, scanCut>>
\* What no step of a worker or of runWorkers touches.
outerVars == <<plan, store0, migVars>>
vars ==
    <<store, disk, fails, kills, SyncSize, engineVars, mutated, hist, outerVars>>

NoKey == <<>>
NoRet == [valid |-> FALSE, count |-> 0, err |-> FALSE]
EmptyStore == [k \in {} |-> <<>>]

\* &swapWorker{store, syncPrefix} and the worker's locals.  old, new, v are
\* swap's parameters and the value it read; i is the position of
\* syncAndDelete's loop; ctx is where syncAndDelete was called from ("swap",
\* "final").  got, put, synced, flushOk, badDel are history: the keys this
\* worker has passed to swap as old, those of them whose value it has Put
\* under the replacement key, those of them a later Sync of this worker
\* covered, whether the Sync of the flush in progress worked, and the keys
\* deleted without that.
NewWorker(pc) ==
    [pc |-> pc, old |-> NoKey, new |-> NoKey, v |-> <<>>, swappedTo |-> NoKey,
     swapped |-> 0, curSyncSize |-> 0, toDelete |-> <<>>, errored |-> 0,
     i |-> 0, ctx |-> "",
     got |-> {}, put |-> {}, synced |-> {}, flushOk |-> FALSE, badDel |-> {}]

\* The worker takes the next item: swap's locals are dead.
ToRecv(r) ==
    [r EXCEPT !.pc = "recv", !.old = NoKey, !.new = NoKey, !.v = <<>>,
              !.swappedTo = NoKey, !.i = 0, !.ctx = ""]
\* A bug: the error is logged and not counted.
Errored_NotCounted(r) == r
\* errored++
Errored(r) == [r EXCEPT !.errored = @ + 1]
CanFail == fails < MaxFails
NoFail == fails' = fails
Fail == CanFail /\ fails' = fails + 1

\* ------------------------------------------------------ the callers of swap
\* A bug: the pending keys are deleted right after a swap, with no Sync
\* before.
FwdAfterSwap_EagerDelete(r, err) ==
    IF err # "nil" THEN ToRecv(Errored(r))
    ELSE IF r.toDelete # <<>>
         THEN [r EXCEPT !.pc = "del", !.i = 1, !.ctx = "swap"]
    ELSE IF cswap.SwapCh THEN [r EXCEPT !.pc = "send"]
    ELSE ToRecv(r)

\* swapWorker, lines 139-149: what follows sw.swap(oldKey, newKey).
FwdAfterSwap(r, err) ==
    IF err # "nil" THEN ToRecv(Errored(r))
    ELSE IF cswap.SwapCh THEN [r EXCEPT !.pc = "send"]
    ELSE ToRecv(r)

\* A bug: the pair is not remembered in the map.
RevDone_Forgotten(w, r) ==
    /\ sw' = [sw EXCEPT ![w] = IF cswap.SwapCh THEN [r EXCEPT !.pc = "send"]
                               ELSE ToRecv(r)]
    /\ UNCHANGED unswappedMap

\* unswapWorker, lines 216-220: notify SwapCh, then remember the pair.
RevDone(w, r) ==
    IF cswap.SwapCh
    THEN /\ sw' = [sw EXCEPT ![w] = [r EXCEPT !.pc = "send"]]
         /\ UNCHANGED unswappedMap
    ELSE /\ sw' = [sw EXCEPT ![w] = ToRecv(r)]
         /\ unswappedMap' = PutKV(unswappedMap, r.old, r.new)

\* A bug: unswapWorker without its map: every NotFound is an error.
RevAfterSwap_NoMap(w, r, err) ==
    IF err = "nil" THEN RevDone(w, r)
    ELSE /\ sw' = [sw EXCEPT ![w] = ToRecv(Errored(r))]
         /\ UNCHANGED unswappedMap

\* unswapWorker, lines 185-215: what follows swker.swap(sw.New, sw.Old).
\* Inside swap, old is sw.New and new is sw.Old.
RevAfterSwap(w, r, err) ==
    CASE err = "nil" -> RevDone(w, r)
      [] err = "NotFound" /\ Has(unswappedMap, r.old) ->
            /\ sw' = [sw EXCEPT ![w] =
                        [r EXCEPT !.pc = "dsync",
                                  !.swappedTo = unswappedMap[r.old]]]
            /\ UNCHANGED unswappedMap
      [] OTHER ->
            /\ sw' = [sw EXCEPT ![w] = ToRecv(Errored(r))]
            /\ UNCHANGED unswappedMap

\* swap returns err to the worker that called it.
SwapReturns(w, r, err) ==
    IF mode = "run"
    THEN /\ sw' = [sw EXCEPT ![w] = FwdAfterSwap(r, err)]
         /\ UNCHANGED unswappedMap
    ELSE RevAfterSwap(w, r, err)

\* syncAndDelete returns err: to swap (line 270), which returns it, or to the
\* worker's final sync (lines 154-158, 224-228), which counts it and goes on
\* to sw.sync().
SyncAndDeleteReturns(w, r, err) ==
    IF r.ctx = "swap" THEN SwapReturns(w, r, err)
    ELSE /\ sw' = [sw EXCEPT ![w] =
                     [(IF err = "nil" THEN r ELSE Errored(r))
                        EXCEPT !.pc = "sync2", !.i = 0, !.ctx = ""]]
         /\ UNCHANGED unswappedMap

\* --------------------------------------------------------------- the workers
\* A bug: a receive that leaves the item in the channel for the next receiver.
Received_Kept(ch) == ch

\* A receive from a channel: what is left in the channel for the other
\* receivers once a worker has taken the item at its head.
Received(ch) == Tail(ch)

Active(w) == sw[w].pc \notin {"off", "done"}

\* A bug: the final sync is done in a dry run too.
AtEnd_SyncInDryRun(r) == [r EXCEPT !.pc = "sync", !.ctx = "final"]

\* The worker's loop has ended (the channel is closed and empty): the final
\* sync of a real run or of a revert; a dry run returns at once.
AtEnd(r) ==
    IF mode = "run" /\ dryRun THEN [r EXCEPT !.pc = "ret"]
    ELSE [r EXCEPT !.pc = "sync", !.ctx = "final"]

\* swapWorker, lines 113-137: take one query result and classify it.
TakeResult(w) ==
    /\ mode = "run"
    /\ sw[w].pc = "recv"
    /\ IF resultsCh = <<>>
       THEN /\ sw' = [sw EXCEPT ![w] = AtEnd(@)]
            /\ UNCHANGED resultsCh
       ELSE LET res == Head(resultsCh)
                r == sw[w]
                c == Classify(res.Key)
            IN  /\ resultsCh' = Received(resultsCh)
                /\ sw' = [sw EXCEPT ![w] =
                     IF res.Error THEN Errored(r)
                     ELSE IF c.skip THEN r
                     ELSE IF dryRun
                          THEN IF cswap.SwapCh
                               THEN [r EXCEPT !.swapped = @ + 1, !.pc = "send",
                                       !.old = res.Key, !.new = c.newKey]
                               ELSE [r EXCEPT !.swapped = @ + 1]
                          ELSE [r EXCEPT !.pc = "get", !.old = res.Key,
                                         !.new = c.newKey,
                                         !.got = @ \cup {res.Key}]]
    /\ UNCHANGED <<store, disk, fails, kills, SyncSize, mode, cswap, dryRun,
                   unswapCh, unswapClosed, unswappedMap, total, nErrors, ret,
                   SwapCh, sent>>
    /\ UNCHANGED outerVars
    /\ UNCHANGED mutated
    /\ UNCHANGED hist

\* unswapWorker, lines 184-185: take one record and call swap(sw.New, sw.Old).
TakeSwap(w) ==
    /\ mode = "revert"
    /\ sw[w].pc = "recv"
    /\ IF unswapCh = <<>>
       THEN /\ unswapClosed
            /\ sw' = [sw EXCEPT ![w] = AtEnd(@)]
            /\ UNCHANGED unswapCh
       ELSE /\ unswapCh' = Received(unswapCh)
            /\ sw' = [sw EXCEPT ![w] =
                        [@ EXCEPT !.pc = "get", !.old = Head(unswapCh).New,
                                  !.new = Head(unswapCh).Old,
                                  !.got = @ \cup {Head(unswapCh).New}]]
    /\ UNCHANGED <<store, disk, fails, kills, SyncSize, mode, cswap, dryRun,
                   resultsCh, unswapClosed, unswappedMap, total, nErrors, ret,
                   SwapCh, sent>>
    /\ UNCHANGED outerVars
    /\ UNCHANGED mutated
    /\ UNCHANGED hist

\* swap, lines 254-258: v, err := sw.store.Get(old).
SwapGet(w) ==
    /\ sw[w].pc = "get"
    /\ LET r == sw[w]
       IN  \/ /\ Has(store, r.old)
              /\ NoFail
              /\ sw' = [sw EXCEPT ![w] = [r EXCEPT !.pc = "put",
                                                   !.v = store[r.old]]]
              /\ UNCHANGED unswappedMap
           \/ /\ ~Has(store, r.old)
              /\ NoFail
              /\ SwapReturns(w, r, "NotFound")
           \/ /\ Fail
              /\ SwapReturns(w, r, "io")
    /\ UNCHANGED <<store, disk, kills, SyncSize, mode, cswap, dryRun,
                   resultsCh, unswapCh, unswapClosed, total, nErrors, ret,
                   SwapCh, sent>>
    /\ UNCHANGED outerVars
    /\ UNCHANGED mutated
    /\ UNCHANGED hist

\* A bug: swap does not queue the old key for deletion.
Put_ok_NotQueued(r) ==
    LET q == [r EXCEPT !.swapped = @ + 1,
                       !.curSyncSize = @ + Len(r.v),
                       !.put = @ \cup {r.old},
                       !.synced = @ \ {r.old}]
    IN  IF q.curSyncSize >= SyncSize
        THEN [q EXCEPT !.curSyncSize = 0, !.pc = "sync", !.ctx = "swap"]
        ELSE [q EXCEPT !.pc = "swapped"]

\* swap, lines 259-275 after a Put that worked: queue old for deletion, count,
\* and on reaching SyncSize start syncAndDelete.
Put_ok(r) ==
    LET q == [r EXCEPT !.toDelete = Append(@, r.old),
                       !.swapped = @ + 1,
                       !.curSyncSize = @ + Len(r.v),
                       !.put = @ \cup {r.old},
                       !.synced = @ \ {r.old}]
    IN  IF q.curSyncSize >= SyncSize
        THEN [q EXCEPT !.curSyncSize = 0, !.pc = "sync", !.ctx = "swap"]
        ELSE [q EXCEPT !.pc = "swapped"]

\* swap, line 259: sw.store.Put(new, v).
SwapPut(w) ==
    /\ sw[w].pc = "put"
    /\ LET r == sw[w]
       IN  \/ /\ NoFail
              /\ store' = PutKV(store, r.new, r.v)
              /\ mutated' = IF mode = "run" THEN mutated \cup {r.old}
                            ELSE mutated
              /\ IF Put_ok(r).pc = "swapped"
                 THEN SwapReturns(w, Put_ok(r), "nil")
                 ELSE /\ sw' = [sw EXCEPT ![w] = Put_ok(r)]
                      /\ UNCHANGED unswappedMap
           \/ /\ Fail
              /\ UNCHANGED <<store, mutated>>
              /\ SwapReturns(w, r, "io")
    /\ UNCHANGED <<disk, kills, SyncSize, mode, cswap, dryRun,
                   resultsCh, unswapCh, unswapClosed, total, nErrors, ret,
                   SwapCh, sent>>
    /\ UNCHANGED outerVars
    /\ UNCHANGED hist

\* A bug: syncAndDelete drops the error of its sync and deletes.
AfterFlushSync_DropErr(w, r, ok) ==
    LET q == IF ok THEN [r EXCEPT !.flushOk = TRUE, !.synced = r.put]
             ELSE [r EXCEPT !.flushOk = FALSE]
    IN  IF q.toDelete = <<>>
        THEN SyncAndDeleteReturns(w, q, "nil")
        ELSE /\ sw' = [sw EXCEPT ![w] = [q EXCEPT !.pc = "del", !.i = 1]]
             /\ UNCHANGED unswappedMap

\* syncAndDelete, lines 279-282 and 290-291: after its sync.  With nothing to
\* delete the loop is empty and it returns nil.
AfterFlushSync(w, r, ok) ==
    IF ~ok THEN SyncAndDeleteReturns(w, [r EXCEPT !.flushOk = FALSE], "io")
    ELSE LET q == [r EXCEPT !.flushOk = TRUE, !.synced = r.put]
         IN  IF q.toDelete = <<>>
             THEN SyncAndDeleteReturns(w, q, "nil")
             ELSE /\ sw' = [sw EXCEPT ![w] = [q EXCEPT !.pc = "del", !.i = 1]]
                  /\ UNCHANGED unswappedMap

\* syncAndDelete, line 279: sw.sync(), that is store.Sync(syncPrefix).
FlushSync(w) ==
    /\ sw[w].pc = "sync"
    /\ \/ /\ NoFail
          /\ disk' = Synced(store, disk, cswap.Prefix)
          /\ AfterFlushSync(w, sw[w], TRUE)
       \/ /\ Fail
          /\ UNCHANGED disk
          /\ AfterFlushSync(w, sw[w], FALSE)
    /\ UNCHANGED <<store, kills, SyncSize, mode, cswap, dryRun,
                   resultsCh, unswapCh, unswapClosed, total, nErrors, ret,
                   SwapCh, sent>>
    /\ UNCHANGED outerVars
    /\ UNCHANGED mutated
    /\ UNCHANGED hist

\* syncAndDelete, lines 285-291: one round of the loop, sw.store.Delete(o).
\* A failed Delete returns with toDelete as it was.
FlushDelete(w) ==
    /\ sw[w].pc = "del"
    /\ LET r == sw[w]
           o == r.toDelete[r.i]
           q == [r EXCEPT !.badDel =
                    IF o \in r.synced /\ r.flushOk THEN @ ELSE @ \cup {o}]
       IN  \/ /\ NoFail
              /\ store' = DelK(store, o)
              /\ mutated' = IF mode = "run" THEN mutated \cup {o} ELSE mutated
              /\ IF r.i < Len(r.toDelete)
                 THEN /\ sw' = [sw EXCEPT ![w] = [q EXCEPT !.i = @ + 1]]
                      /\ UNCHANGED unswappedMap
                 ELSE SyncAndDeleteReturns(w, [q EXCEPT !.toDelete = <<>>],
                                           "nil")
           \/ /\ Fail
              /\ UNCHANGED <<store, mutated>>
              /\ SyncAndDeleteReturns(w, q, "io")
    /\ UNCHANGED <<disk, kills, SyncSize, mode, cswap, dryRun,
                   resultsCh, unswapCh, unswapClosed, total, nErrors, ret,
                   SwapCh, sent>>
    /\ UNCHANGED outerVars
    /\ UNCHANGED hist

\* swapWorker, lines 159-163, and unswapWorker, lines 229-233: the last
\* sw.sync(), for the deletions.
FinalSync(w) ==
    /\ sw[w].pc = "sync2"
    /\ \/ /\ NoFail
          /\ disk' = Synced(store, disk, cswap.Prefix)
          /\ sw' = [sw EXCEPT ![w] = [@ EXCEPT !.pc = "ret",
                                               !.synced = sw[w].put]]
       \/ /\ Fail
          /\ UNCHANGED disk
          /\ sw' = [sw EXCEPT ![w] = [Errored(@) EXCEPT !.pc = "ret"]]
    /\ UNCHANGED <<store, kills, SyncSize, mode, cswap, dryRun,
                   resultsCh, unswapCh, unswapClosed, unswappedMap, total,
                   nErrors, ret, SwapCh, sent>>
    /\ UNCHANGED outerVars
    /\ UNCHANGED mutated
    /\ UNCHANGED hist

\* A bug: the record is sent twice.
Send_Twice(w) ==
    /\ sw[w].pc = "send"
    /\ Len(SwapCh) + 1 < SwapChCap
    /\ SwapCh' = SwapCh \o << Swap(sw[w].old, sw[w].new),
                               Swap(sw[w].old, sw[w].new) >>
    /\ sent' = sent \o << Swap(sw[w].old, sw[w].new),
                           Swap(sw[w].old, sw[w].new) >>
    /\ sw' = [sw EXCEPT ![w] = ToRecv(@)]
    /\ unswappedMap' = IF mode = "revert"
                       THEN PutKV(unswappedMap, sw[w].old, sw[w].new)
                       ELSE unswappedMap
    /\ UNCHANGED <<store, disk, fails, kills, SyncSize, mode, cswap, dryRun,
                   resultsCh, unswapCh, unswapClosed, total, nErrors, ret,
                   mutated, hist, outerVars>>

\* swapWorker, lines 147-149: cswap.SwapCh <- Swap{Old: oldKey, New: newKey};
\* unswapWorker, lines 216-220: cswap.SwapCh <- Swap{Old: sw.New, New: sw.Old}
\* and then unswappedMap[sw.New] = sw.Old.  The send waits while the channel
\* is full.
Send(w) ==
    /\ sw[w].pc = "send"
    /\ Len(SwapCh) < SwapChCap
    /\ SwapCh' = Append(SwapCh, Swap(sw[w].old, sw[w].new))
    /\ sent' = Append(sent, Swap(sw[w].old, sw[w].new))
    /\ sw' = [sw EXCEPT ![w] = ToRecv(@)]
    /\ unswappedMap' = IF mode = "revert"
                       THEN PutKV(unswappedMap, sw[w].old, sw[w].new)
                       ELSE unswappedMap
    /\ UNCHANGED <<store, disk, fails, kills, SyncSize, mode, cswap, dryRun,
                   resultsCh, unswapCh, unswapClosed, total, nErrors, ret>>
    /\ UNCHANGED outerVars
    /\ UNCHANGED mutated
    /\ UNCHANGED hist

\* unswapWorker, line 198: swker.sync(), its error dropped.
DedupSync(w) ==
    /\ sw[w].pc = "dsync"
    /\ \/ /\ NoFail
          /\ disk' = Synced(store, disk, cswap.Prefix)
          /\ sw' = [sw EXCEPT ![w] = [@ EXCEPT !.pc = "dget",
                                               !.synced = sw[w].put]]
       \/ /\ Fail
          /\ UNCHANGED disk
          /\ sw' = [sw EXCEPT ![w] = [@ EXCEPT !.pc = "dget"]]
    /\ UNCHANGED <<store, kills, SyncSize, mode, cswap, dryRun,
                   resultsCh, unswapCh, unswapClosed, unswappedMap, total,
                   nErrors, ret, SwapCh, sent>>
    /\ UNCHANGED outerVars
    /\ UNCHANGED mutated
    /\ UNCHANGED hist

\* unswapWorker, lines 200-205: v, err := swker.store.Get(swappedTo).
DedupGet(w) ==
    /\ sw[w].pc = "dget"
    /\ LET r == sw[w]
       IN  \/ /\ Has(store, r.swappedTo)
              /\ NoFail
              /\ sw' = [sw EXCEPT ![w] = [r EXCEPT !.pc = "dput",
                                                   !.v = store[r.swappedTo]]]
           \/ /\ ~Has(store, r.swappedTo)
              /\ NoFail
              /\ sw' = [sw EXCEPT ![w] = ToRecv(Errored(r))]
           \/ /\ Fail
              /\ sw' = [sw EXCEPT ![w] = ToRecv(Errored(r))]
    /\ UNCHANGED <<store, disk, kills, SyncSize, mode, cswap, dryRun,
                   resultsCh, unswapCh, unswapClosed, unswappedMap, total,
                   nErrors, ret, SwapCh, sent>>
    /\ UNCHANGED outerVars
    /\ UNCHANGED mutated
    /\ UNCHANGED hist

\* unswapWorker, lines 206-210: swker.store.Put(sw.Old, v); a failed Put is
\* counted and the record is still counted as swapped, notified and remembered.
DedupPut(w) ==
    /\ sw[w].pc = "dput"
    /\ LET r == sw[w]
       IN  \/ /\ NoFail
              /\ store' = PutKV(store, r.new, r.v)
              /\ RevDone(w, [r EXCEPT !.swapped = @ + 1])
           \/ /\ Fail
              /\ UNCHANGED store
              /\ RevDone(w, [Errored(r) EXCEPT !.swapped = @ + 1])
    /\ UNCHANGED <<disk, kills, SyncSize, mode, cswap, dryRun,
                   resultsCh, unswapCh, unswapClosed, total, nErrors, ret,
                   SwapCh, sent>>
    /\ UNCHANGED outerVars
    /\ UNCHANGED mutated
    /\ UNCHANGED hist

\* A bug: total = n, a store in place of the atomic addition.
AddTotal_Store(w) ==
    /\ sw[w].pc = "ret"
    /\ total' = sw[w].swapped
    /\ sw' = [sw EXCEPT ![w] = [@ EXCEPT !.pc = "ret2"]]
    /\ UNCHANGED <<store, disk, fails, kills, SyncSize, mode, cswap, dryRun,
                   resultsCh, unswapCh, unswapClosed, unswappedMap, nErrors,
                   ret, SwapCh, sent, mutated, hist, outerVars>>

\* ---------------------------------------------------------------- runWorkers
\* runWorkers, line 90: atomic.AddUint64(&total, n).
AddTotal(w) ==
    /\ sw[w].pc = "ret"
    /\ total' = total + sw[w].swapped
    /\ sw' = [sw EXCEPT ![w] = [@ EXCEPT !.pc = "ret2"]]
    /\ UNCHANGED <<store, disk, fails, kills, SyncSize, mode, cswap, dryRun,
                   resultsCh, unswapCh, unswapClosed, unswappedMap, nErrors,
                   ret, SwapCh, sent>>
    /\ UNCHANGED outerVars
    /\ UNCHANGED mutated
    /\ UNCHANGED hist

\* runWorkers, lines 91 and 88: atomic.AddUint64(&nErrors, e), then wg.Done().
AddErrors(w) ==
    /\ sw[w].pc = "ret2"
    /\ nErrors' = nErrors + sw[w].errored
    /\ sw' = [sw EXCEPT ![w] = [@ EXCEPT !.pc = "done"]]
    /\ UNCHANGED <<store, disk, fails, kills, SyncSize, mode, cswap, dryRun,
                   resultsCh, unswapCh, unswapClosed, unswappedMap, total,
                   ret, SwapCh, sent>>
    /\ UNCHANGED outerVars
    /\ UNCHANGED mutated
    /\ UNCHANGED hist

\* runWorkers, lines 94-98: wg.Wait() is over; return total and the error.
Returned(count, err) == [valid |-> TRUE, count |-> count, err |-> err]
\* The entry of hist for a call that ended: what it was, what it returned
\* (NoRet when the process was killed in it), the store it left and the
\* failures injected up to then.
Ended(op, dry, r, f) ==
    [op |-> op, dryRun |-> dry, ret |-> r, store |-> store, fails |-> f]
runWorkersReturn ==
    /\ mode \in {"run", "revert"}
    /\ \A w \in Workers : ~Active(w)
    /\ ret' = Returned(total, nErrors > 0)
    /\ mode' = "none"
    /\ hist' = Append(hist, Ended(mode, dryRun, Returned(total, nErrors > 0),
                                   fails))
    /\ UNCHANGED <<store, disk, fails, kills, SyncSize, cswap, dryRun,
                   resultsCh, unswapCh, unswapClosed, sw, unswappedMap, total,
                   nErrors, SwapCh, sent>>
    /\ UNCHANGED outerVars
    /\ UNCHANGED mutated

\* runWorkers, lines 82-93: the state when the nWorkers goroutines start.
Started(nWorkers) ==
    /\ sw' = [w \in Workers |->
                IF w <= nWorkers THEN NewWorker("recv") ELSE NewWorker("off")]
    /\ total' = 0
    /\ nErrors' = 0
    /\ unswappedMap' = EmptyStore
    /\ ret' = NoRet

\* CidSwapper.Run, lines 44-61.  The query fails, or it lists the keys under
\* the prefix; one entry of the list may be an error in place of its key.
Run(prefix, swapCh, dry) ==
    /\ mode = "none"
    /\ UNCHANGED <<store, disk>>
    /\ cswap' = [Prefix |-> prefix, SwapCh |-> swapCh]
    /\ dryRun' = dry
    /\ unswapCh' = <<>>
    /\ unswapClosed' = FALSE
    /\ \/ /\ NoFail
          /\ resultsCh' = QueryResults(store, prefix)
          /\ mode' = "run"
          /\ Started(NWorkers)
          /\ UNCHANGED hist
       \/ /\ Fail
          /\ \E i \in 1..Len(QueryResults(store, prefix)) :
                resultsCh' = [QueryResults(store, prefix) EXCEPT ![i] = ErrResult]
          /\ mode' = "run"
          /\ Started(NWorkers)
          /\ UNCHANGED hist
       \/ /\ Fail
          /\ resultsCh' = <<>>
          /\ mode' = "none"
          /\ sw' = [w \in Workers |-> NewWorker("off")]
          /\ total' = 0
          /\ nErrors' = 0
          /\ unswappedMap' = EmptyStore
          /\ ret' = Returned(0, TRUE)
          /\ hist' = Append(hist, Ended("run", dry, Returned(0, TRUE),
                                         fails + 1))

\* CidSwapper.Revert, lines 67-76: one worker over unswapCh.
Revert(prefix, swapCh) ==
    /\ mode = "none"
    /\ cswap' = [Prefix |-> prefix, SwapCh |-> swapCh]
    /\ dryRun' = FALSE
    /\ resultsCh' = <<>>
    /\ mode' = "revert"
    /\ Started(1)
    /\ UNCHANGED <<store, disk, fails, hist>>

\* ------------------------------------------------------------ a process kill
\* The stores a kill may leave: each key as the store had it, or as the last
\* Sync left it.
CrashStores(s, d) ==
    LET diff == {k \in (DOMAIN s) \cup (DOMAIN d) :
                    \/ Has(s, k) # Has(d, k)
                    \/ Has(s, k) /\ Has(d, k) /\ s[k] # d[k]}
    IN  {[k \in ((DOMAIN s) \ T) \cup ((DOMAIN d) \cap T) |->
            IF k \in T THEN d[k] ELSE s[k]] : T \in SUBSET diff}

\* The process dies: its goroutines, channels and buffers are gone.
Killed ==
    /\ kills < MaxKills
    /\ kills' = kills + 1
    /\ store' \in CrashStores(store, disk)
    /\ disk' = store'
    /\ mode' = "none"
    /\ sw' = [w \in Workers |-> NewWorker("off")]
    /\ resultsCh' = <<>>
    /\ unswapCh' = <<>>
    /\ unswapClosed' = FALSE
    /\ unswappedMap' = EmptyStore
    /\ total' = 0
    /\ nErrors' = 0
    /\ ret' = NoRet
    /\ SwapCh' = <<>>
    /\ sent' = <<>>
    /\ UNCHANGED <<fails, SyncSize, cswap, dryRun, mutated, store0>>

\* ------------------------------------------------- the engine and its caller
\* The calls of the model's callers.
Call(op, dry, ch) == [op |-> op, dryRun |-> dry, ch |-> ch]
Plans ==
    { << Call("run", TRUE, TRUE) >>,
      << Call("run", TRUE, FALSE) >>,
      << Call("run", FALSE, TRUE), Call("run", FALSE, TRUE) >>,
      << Call("run", FALSE, FALSE), Call("revert", FALSE, TRUE),
         Call("revert", FALSE, FALSE) >> }

\* The content-addressed store over a set of keys.
StoreOver(S) == [k \in S |-> Content(k)]
BlockKeys == {k \in Universe : IsUnder(k, blocks)}

RECURSIVE RecordsFrom(_, _)
\* The Swap records of the version >= 1 keys of s, in query order: what a
\* caller that listened on SwapCh during Run hands to Revert.
RecordsFrom(s, i) ==
    IF i > Len(KeyOrder) THEN <<>>
    ELSE IF Has(s, KeyOrder[i]) /\ ~Classify(KeyOrder[i]).skip
         THEN <<Swap(KeyOrder[i], Classify(KeyOrder[i]).newKey)>>
                \o RecordsFrom(s, i + 1)
         ELSE RecordsFrom(s, i + 1)

IdleMigration ==
    /\ mpc = "idle"
    /\ pidx = 0
    /\ file = <<>>
    /\ fileExists = FALSE
    /\ buf = <<>>
    /\ swapClosed = FALSE
    /\ writingDone = FALSE
    /\ renamed = FALSE
    /\ scanQ = <<>>
    /\ scannerErr = FALSE
    /\ scanCut = FALSE

InitEngine ==
    /\ fails = 0
    /\ kills = 0
    /\ SyncSize \in SyncSizes
    /\ mode = "none"
    /\ cswap = [Prefix |-> <<>>, SwapCh |-> FALSE]
    /\ dryRun = FALSE
    /\ resultsCh = <<>>
    /\ unswapCh = <<>>
    /\ unswapClosed = FALSE
    /\ sw = [w \in Workers |-> NewWorker("off")]
    /\ unswappedMap = EmptyStore
    /\ total = 0
    /\ nErrors = 0
    /\ ret = NoRet
    /\ SwapCh = <<>>
    /\ sent = <<>>
    /\ mutated = {}
    /\ hist = <<>>

Init ==
    /\ InitEngine
    /\ \E S \in SUBSET BlockKeys : store = StoreOver(S)
    /\ disk = store
    /\ store0 = store
    /\ plan \in Plans
    /\ version = "8"
    /\ IdleMigration

\* A caller calls cswap.Run(dryRun) on the blocks prefix.
CallRun ==
    /\ plan # <<>>
    /\ Head(plan).op = "run"
    /\ plan' = Tail(plan)
    /\ SwapCh' = <<>>
    /\ sent' = <<>>
    /\ Run(blocks, Head(plan).ch, Head(plan).dryRun)
    /\ UNCHANGED <<kills, SyncSize, mutated, store0, migVars>>

\* A caller calls cswap.Revert(unswapCh), the channel holding the records of
\* the keys the store held at the start, and closed.
CallRevert ==
    /\ plan # <<>>
    /\ Head(plan).op = "revert"
    /\ plan' = Tail(plan)
    /\ SwapCh' = <<>>
    /\ sent' = <<>>
    /\ unswapCh' = RecordsFrom(store0, 1)
    /\ unswapClosed' = TRUE
    /\ Revert(blocks, Head(plan).ch)
    /\ UNCHANGED <<kills, SyncSize, mutated, store0, migVars>>

\* The process is killed during a call.
Kill ==
    /\ mode # "none"
    /\ Killed
    /\ hist' = Append(hist, [op |-> mode, dryRun |-> dryRun, ret |-> NoRet,
                             store |-> store', fails |-> fails])
    /\ UNCHANGED <<plan, migVars>>

Worker(w) ==
    \/ TakeResult(w)
    \/ TakeSwap(w)
    \/ SwapGet(w)
    \/ SwapPut(w)
    \/ FlushSync(w)
    \/ FlushDelete(w)
    \/ FinalSync(w)
    \/ Send(w)
    \/ DedupSync(w)
    \/ DedupGet(w)
    \/ DedupPut(w)
    \/ AddTotal(w)
    \/ AddErrors(w)

\* The engine under callers that call Run and Revert; store operations fail.
Next ==
    \/ CallRun
    \/ CallRevert
    \/ runWorkersReturn
    \/ \E w \in Workers : Worker(w)

Spec == Init /\ [][Next]_vars

\* The engine under a caller that runs the migration and then reverts it,
\* twice; the process may be killed during a call.
InitKill ==
    /\ Init
    /\ plan = << Call("run", FALSE, FALSE), Call("revert", FALSE, TRUE),
                 Call("revert", FALSE, FALSE) >>

NextKill ==
    \/ CallRun
    \/ CallRevert
    \/ Kill
    \/ runWorkersReturn
    \/ \E w \in Workers : Worker(w)

SpecKill == InitKill /\ [][NextKill]_vars

\* ======================================================= Migration (Apply)
NL == <<"\n">>
\* What fmt.Fprint(buf, sw.Old.String(), "\n") hands to the writer: the key
\* and the newline, two tokens.
LineOf(k) == <<k, NL>>

RECURSIVE BufWrite(_, _, _)
\* bufio.Writer.Write(p) on a writer holding b over a file holding f: while p
\* does not fit, fill the buffer and flush it (or, the buffer being empty,
\* write p straight to the file); what is left of p stays in the buffer.
BufWrite(b, f, p) ==
    IF Len(p) > BufSize - Len(b)
    THEN IF b = <<>>
         THEN [buf |-> <<>>, file |-> f \o p]
         ELSE LET n == BufSize - Len(b)
              IN  BufWrite(<<>>, f \o b \o SubSeq(p, 1, n),
                           SubSeq(p, n + 1, Len(p)))
    ELSE [buf |-> b \o p, file |-> f]

\* The process of Apply or Revert ends (it returned, or it was killed): its
\* deferred f.Close() does not flush the bufio.Writer.
ProcessEnds ==
    /\ mpc' = "idle"
    /\ pidx' = 0
    /\ buf' = <<>>
    /\ swapClosed' = FALSE
    /\ writingDone' = FALSE
    /\ scanQ' = <<>>
    /\ scannerErr' = FALSE

\* Migration.Apply, lines 81-128, when the version is not 8: CheckVersion
\* returns the error.
ApplyRefused ==
    /\ mpc = "idle" /\ mode = "none"
    /\ plan # <<>> /\ Head(plan).op = "apply"
    /\ version # "8"
    /\ plan' = Tail(plan)
    /\ hist' = Append(hist, Ended("apply", FALSE, Returned(0, TRUE), fails))
    /\ UNCHANGED <<store, disk, fails, kills, SyncSize, engineVars, mutated,
                   store0, migVars>>

\* Migration.Apply, lines 81-138: the version is 8; the log is opened for
\* appending (created when missing), and the writer goroutine starts.
ApplyStart ==
    /\ mpc = "idle" /\ mode = "none"
    /\ plan # <<>> /\ Head(plan).op = "apply"
    /\ version = "8"
    /\ plan' = Tail(plan)
    /\ fileExists' = TRUE
    /\ buf' = <<>>
    /\ SwapCh' = <<>>
    /\ sent' = <<>>
    /\ swapClosed' = FALSE
    /\ writingDone' = FALSE
    /\ pidx' = 1
    /\ mpc' = "dry"
    /\ UNCHANGED <<store, disk, fails, kills, SyncSize, mode, cswap, dryRun,
                   resultsCh, unswapCh, unswapClosed, sw, unswappedMap, total,
                   nErrors, ret, mutated, hist, store0, file, version,
                   renamed, scanQ, scannerErr, scanCut>>

\* Apply, lines 143-144: cidSwapper.Run(true) on the next prefix, with SwapCh.
ApplyDryRun ==
    /\ mpc = "dry"
    /\ Run(migrationPrefixes[pidx], TRUE, TRUE)
    /\ mpc' = "dryRun"
    /\ UNCHANGED <<kills, SyncSize, SwapCh, sent, mutated, plan, store0,
                   pidx, file, fileExists, buf, swapClosed, writingDone,
                   version, renamed, scanQ, scannerErr, scanCut>>

\* Apply, lines 145-152: the dry run returned.  On an error close(swapCh) and
\* return it; else go on to the next prefix, and after the last close(swapCh).
ApplyDryReturned ==
    /\ mpc = "dryRun" /\ mode = "none" /\ ret.valid
    /\ IF ret.err
       THEN /\ ProcessEnds
            /\ SwapCh' = <<>>
            /\ hist' = Append(hist, Ended("apply", FALSE, Returned(0, TRUE),
                                          fails))
       ELSE /\ IF pidx < Len(migrationPrefixes)
               THEN /\ pidx' = pidx + 1
                    /\ mpc' = "dry"
                    /\ UNCHANGED swapClosed
               ELSE /\ pidx' = pidx
                    /\ mpc' = "wait"
                    /\ swapClosed' = TRUE
            /\ UNCHANGED <<SwapCh, hist, buf, writingDone, scanQ, scannerErr>>
    /\ ret' = NoRet
    /\ UNCHANGED <<store, disk, fails, kills, SyncSize, mode, cswap, dryRun,
                   resultsCh, unswapCh, unswapClosed, sw, unswappedMap, total,
                   nErrors, sent, mutated, plan, store0, file, fileExists,
                   version, renamed, scanCut>>

\* Apply, lines 131-138: the writer goroutine takes a record from swapCh and
\* prints its Old key and a newline to buf; when swapCh is closed and empty,
\* close(writingDone).
Writer ==
    /\ mpc \in {"dry", "dryRun", "wait"}
    /\ ~writingDone
    /\ IF SwapCh # <<>>
       THEN LET o == BufWrite(buf, file, LineOf(Head(SwapCh).Old))
            IN  /\ SwapCh' = Tail(SwapCh)
                /\ buf' = o.buf
                /\ file' = o.file
                /\ UNCHANGED writingDone
       ELSE /\ swapClosed
            /\ writingDone' = TRUE
            /\ UNCHANGED <<SwapCh, buf, file>>
    /\ UNCHANGED <<store, disk, fails, kills, SyncSize, mode, cswap, dryRun,
                   resultsCh, unswapCh, unswapClosed, sw, unswappedMap, total,
                   nErrors, ret, sent, mutated, hist, plan, store0, mpc, pidx,
                   fileExists, swapClosed, version, renamed, scanQ,
                   scannerErr, scanCut>>

\* Apply, lines 154-155: <-writingDone, then buf.Flush().
ApplyFlush ==
    /\ mpc = "wait"
    /\ writingDone
    /\ file' = file \o buf
    /\ buf' = <<>>
    /\ pidx' = 1
    /\ mpc' = "real"
    /\ UNCHANGED <<store, disk, fails, kills, SyncSize, engineVars, mutated,
                   hist, plan, store0, fileExists, swapClosed, writingDone,
                   version, renamed, scanQ, scannerErr, scanCut>>

\* Apply, lines 160-161: cidSwapper.Run(false) on the next prefix, no SwapCh.
ApplyRealRun ==
    /\ mpc = "real"
    /\ Run(migrationPrefixes[pidx], FALSE, FALSE)
    /\ mpc' = "realRun"
    /\ UNCHANGED <<kills, SyncSize, SwapCh, sent, mutated, plan, store0,
                   pidx, file, fileExists, buf, swapClosed, writingDone,
                   version, renamed, scanQ, scannerErr, scanCut>>

\* Apply, lines 162-167: the real run returned: return its error, or go on
\* to the next prefix, and after the last to WriteVersion.
ApplyRealReturned ==
    /\ mpc = "realRun" /\ mode = "none" /\ ret.valid
    /\ IF ret.err
       THEN /\ ProcessEnds
            /\ hist' = Append(hist, Ended("apply", FALSE, Returned(0, TRUE),
                                          fails))
       ELSE /\ IF pidx < Len(migrationPrefixes)
               THEN pidx' = pidx + 1 /\ mpc' = "real"
               ELSE pidx' = pidx /\ mpc' = "version9"
            /\ UNCHANGED <<hist, buf, swapClosed, writingDone, scanQ,
                           scannerErr>>
    /\ ret' = NoRet
    /\ UNCHANGED <<store, disk, fails, kills, SyncSize, mode, cswap, dryRun,
                   resultsCh, unswapCh, unswapClosed, sw, unswappedMap, total,
                   nErrors, SwapCh, sent, mutated, plan, store0, file,
                   fileExists, version, renamed, scanCut>>

\* Apply, lines 169-175: repo.WriteVersion("9"), and return.
ApplyWriteVersion ==
    /\ mpc = "version9"
    /\ \/ /\ NoFail
          /\ version' = "9"
          /\ hist' = Append(hist, Ended("apply", FALSE, Returned(0, FALSE),
                                        fails))
       \/ /\ Fail
          /\ UNCHANGED version
          /\ hist' = Append(hist, Ended("apply", FALSE, Returned(0, TRUE),
                                        fails + 1))
    /\ ProcessEnds
    /\ UNCHANGED <<store, disk, kills, SyncSize, engineVars, mutated, plan,
                   store0, file, fileExists, renamed, scanCut>>

\* ====================================================== Migration (Revert)
RECURSIVE LinesOf(_, _)
\* bufio.Scanner over the log: the lines of the token sequence f, cur being
\* the line read so far.  What stands between two newlines is one line, and
\* so is what follows the last newline.  ds.NewKey of a line holding several
\* keys is the key of all their segments.
LinesOf(f, cur) ==
    IF f = <<>> THEN (IF cur = <<>> THEN <<>> ELSE <<cur>>)
    ELSE IF Head(f) = NL THEN <<cur>> \o LinesOf(Tail(f), <<>>)
    ELSE LinesOf(Tail(f), cur \o Head(f))

\* Revert, lines 220-233: the Swap record of one line of the log.
SwapOfLine(cidPath) ==
    Swap(cidPath,
         Child(Parent(cidPath),
               MultihashToDsKey(dsKeyToCid(<<BaseNamespace(cidPath)>>).hash)))

\* Migration.Revert, lines 179-210, when it returns before reverting: the
\* version is not 9, or the log cannot be opened.
RevertRefused ==
    /\ mpc = "idle" /\ mode = "none"
    /\ plan # <<>> /\ Head(plan).op = "mrevert"
    /\ version # "9" \/ ~fileExists
    /\ plan' = Tail(plan)
    /\ hist' = Append(hist, Ended("mrevert", FALSE, Returned(0, TRUE), fails))
    /\ UNCHANGED <<store, disk, fails, kills, SyncSize, engineVars, mutated,
                   store0, migVars>>

\* Migration.Revert, lines 179-246: the version is 9 and the log opens; the
\* scanner goroutine starts and cidSwapper.Revert(unswapCh) is called, with
\* no prefix and no SwapCh.
RevertStart ==
    /\ mpc = "idle"
    /\ plan # <<>> /\ Head(plan).op = "mrevert"
    /\ version = "9" /\ fileExists
    /\ plan' = Tail(plan)
    /\ scanQ' = LinesOf(file, <<>>)
    /\ scannerErr' = FALSE
    /\ scanCut' = FALSE
    /\ unswapCh' = <<>>
    /\ unswapClosed' = FALSE
    /\ SwapCh' = <<>>
    /\ sent' = <<>>
    /\ Revert(<<>>, FALSE)
    /\ mpc' = "revert"
    /\ UNCHANGED <<kills, SyncSize, mutated, store0, pidx, file, fileExists,
                   buf, swapClosed, writingDone, version, renamed>>

\* Revert, lines 216-241: one round of the scanner goroutine.  At the end of
\* the log it closes unswapCh; a read error ends the loop too, and is only
\* logged; a line holding no CID sets scannerErr and ends the loop; any
\* other line is sent as a Swap record.
ScanLine ==
    /\ mpc = "revert"
    /\ ~unswapClosed
    /\ \/ /\ scanQ = <<>>
          /\ NoFail
          /\ unswapClosed' = TRUE
          /\ UNCHANGED <<unswapCh, scanQ, scannerErr, scanCut>>
       \/ /\ scanQ # <<>>
          /\ Fail
          /\ unswapClosed' = TRUE
          /\ scanCut' = TRUE
          /\ UNCHANGED <<unswapCh, scanQ, scannerErr>>
       \/ /\ scanQ # <<>>
          /\ NoFail
          /\ IF dsKeyToCid(<<BaseNamespace(Head(scanQ))>>).err
             THEN /\ scannerErr' = TRUE
                  /\ scanCut' = TRUE
                  /\ unswapClosed' = TRUE
                  /\ UNCHANGED <<unswapCh, scanQ>>
             ELSE /\ Len(unswapCh) < SwapChCap
                  /\ unswapCh' = Append(unswapCh, SwapOfLine(Head(scanQ)))
                  /\ scanQ' = Tail(scanQ)
                  /\ UNCHANGED <<unswapClosed, scannerErr, scanCut>>
    /\ UNCHANGED <<store, disk, kills, SyncSize, mode, cswap, dryRun,
                   resultsCh, sw, unswappedMap, total, nErrors, ret, SwapCh,
                   sent, mutated, hist, plan, store0, mpc, pidx, file,
                   fileExists, buf, swapClosed, writingDone, version, renamed>>

\* Revert, lines 246-255: cidSwapper.Revert returned.  Its error is returned;
\* with scannerErr set the stale err, which is nil, is returned; else go on
\* to WriteVersion.
RevertReturned ==
    /\ mpc = "revert" /\ mode = "none" /\ ret.valid
    /\ IF ret.err \/ scannerErr
       THEN /\ ProcessEnds
            /\ hist' = Append(hist, Ended("mrevert", FALSE,
                                          Returned(ret.count, ret.err), fails))
       ELSE /\ mpc' = "version8"
            /\ UNCHANGED <<hist, pidx, buf, swapClosed, writingDone, scanQ,
                           scannerErr>>
    /\ UNCHANGED <<store, disk, fails, kills, SyncSize, engineVars, mutated,
                   plan, store0, file, fileExists, version, renamed, scanCut>>

\* Revert, lines 258-261: repo.WriteVersion("8").
RevertWriteVersion ==
    /\ mpc = "version8"
    /\ \/ /\ NoFail
          /\ version' = "8"
          /\ mpc' = "rename"
          /\ UNCHANGED <<hist, pidx, buf, swapClosed, writingDone, scanQ,
                         scannerErr>>
       \/ /\ Fail
          /\ UNCHANGED version
          /\ ProcessEnds
          /\ hist' = Append(hist, Ended("mrevert", FALSE,
                                        Returned(ret.count, TRUE), fails + 1))
    /\ UNCHANGED <<store, disk, kills, SyncSize, engineVars, mutated, plan,
                   store0, file, fileExists, renamed, scanCut>>

\* Revert, lines 264-274: f.Close(), then os.Rename to the .reverted name.
RevertRename ==
    /\ mpc = "rename"
    /\ \/ /\ NoFail
          /\ file' = <<>>
          /\ fileExists' = FALSE
          /\ renamed' = TRUE
          /\ hist' = Append(hist, Ended("mrevert", FALSE,
                                        Returned(ret.count, FALSE), fails))
       \/ /\ Fail
          /\ UNCHANGED <<file, fileExists, renamed>>
          /\ hist' = Append(hist, Ended("mrevert", FALSE,
                                        Returned(ret.count, TRUE), fails + 1))
    /\ ProcessEnds
    /\ UNCHANGED <<store, disk, kills, SyncSize, engineVars, mutated, plan,
                   store0, version, scanCut>>

\* The process of Apply or Revert is killed.
KillMigration ==
    /\ mpc # "idle"
    /\ Killed
    /\ ProcessEnds
    /\ hist' = Append(hist, [op |-> IF mpc \in {"revert", "version8", "rename"}
                                    THEN "mrevert" ELSE "apply",
                             dryRun |-> FALSE, ret |-> NoRet,
                             store |-> store', fails |-> fails])
    /\ UNCHANGED <<plan, file, fileExists, version, renamed, scanCut>>

\* ------------------------------------------------ the migration's behaviours
MigrationKeys ==
    { <<"blocks", "Qm1">>, <<"blocks", "bafA1">>, <<"blocks", "bafB1">>,
      <<"blocks", "junk">>, <<"filestore", "bafA1">> }

KillKeys ==
    { <<"blocks", "bafA1">>, <<"blocks", "bafB1">> }

InitMigration(keys) ==
    /\ InitEngine
    /\ \E S \in SUBSET keys : store = StoreOver(S)
    /\ disk = store
    /\ store0 = store
    /\ version = "8"
    /\ IdleMigration

MigrationStep ==
    \/ ApplyRefused
    \/ ApplyStart
    \/ ApplyDryRun
    \/ ApplyDryReturned
    \/ Writer
    \/ ApplyFlush
    \/ ApplyRealRun
    \/ ApplyRealReturned
    \/ ApplyWriteVersion
    \/ RevertRefused
    \/ RevertStart
    \/ ScanLine
    \/ RevertReturned
    \/ RevertWriteVersion
    \/ RevertRename
    \/ runWorkersReturn
    \/ \E w \in Workers : Worker(w)

\* Apply and Revert, one of them called a second time; store operations and
\* reads of the log fail.
MigrationPlans ==
    { << Call("apply", FALSE, FALSE), Call("apply", FALSE, FALSE),
         Call("mrevert", FALSE, FALSE) >>,
      << Call("apply", FALSE, FALSE), Call("mrevert", FALSE, FALSE),
         Call("mrevert", FALSE, FALSE) >> }

InitMigrate ==
    /\ InitMigration(MigrationKeys)
    /\ plan \in MigrationPlans

NextMigrate == MigrationStep

SpecMigrate == InitMigrate /\ [][NextMigrate]_vars

\* Apply, run again after it failed or was killed, and then Revert.
InitMigrateKill ==
    /\ InitMigration(KillKeys)
    /\ plan = << Call("apply", FALSE, FALSE), Call("apply", FALSE, FALSE),
                 Call("mrevert", FALSE, FALSE) >>

NextMigrateKill ==
    \/ MigrationStep
    \/ KillMigration

SpecMigrateKill == InitMigrateKill /\ [][NextMigrateKill]_vars

\* --------------------------------------------- Revert over a log as found
\* How many lines the log of the model holds at most.
MaxLogLen == 3

\* The lines a log may hold: CID keys of the block namespace, three of them
\* of the same hash, and a line that holds no CID.
LogKeys ==
    { <<"blocks", "bafA1">>, <<"blocks", "bafB1">>, <<"blocks", "bafC1">>,
      <<"blocks", "bafA2">>, <<"blocks", "junk">> }
LogInputs == UNION {[1..n -> LogKeys] : n \in 0..MaxLogLen}

RECURSIVE LogFile(_)
\* The log file Apply's writer leaves for the lines ls.
LogFile(ls) ==
    IF ls = <<>> THEN <<>> ELSE LineOf(Head(ls)) \o LogFile(Tail(ls))

\* The line holds a CID.
Parses(l) == ~dsKeyToCid(<<BaseNamespace(l)>>).err
\* The old keys a log lists.
OldKeysOf(ls) == {ls[i] : i \in {j \in 1..Len(ls) : Parses(ls[j])}}
\* The store Apply leaves when it has swapped the keys of the log ls.
MigratedStore(ls) == StoreOver({SwapOfLine(k).New : k \in OldKeysOf(ls)})

\* A repository at version 9, as Apply left it, with its log;
\* Migration.Revert is called, and called again.
InitRevertLog ==
    /\ InitEngine
    /\ \E ls \in LogInputs :
          /\ file = LogFile(ls)
          /\ store = MigratedStore(ls)
    /\ disk = store
    /\ store0 = store
    /\ version = "9"
    /\ fileExists = TRUE
    /\ plan = << Call("mrevert", FALSE, FALSE), Call("mrevert", FALSE, FALSE) >>
    /\ mpc = "idle"
    /\ pidx = 0
    /\ buf = <<>>
    /\ swapClosed = FALSE
    /\ writingDone = FALSE
    /\ renamed = FALSE
    /\ scanQ = <<>>
    /\ scannerErr = FALSE
    /\ scanCut = FALSE

\* The steps of the one unswapWorker of a Revert that has no SwapCh.
UnswapWorker(w) ==
    \/ TakeSwap(w)
    \/ SwapGet(w)
    \/ SwapPut(w)
    \/ FlushSync(w)
    \/ FlushDelete(w)
    \/ FinalSync(w)
    \/ DedupSync(w)
    \/ DedupGet(w)
    \/ DedupPut(w)
    \/ AddTotal(w)
    \/ AddErrors(w)

NextRevertLog ==
    \/ RevertRefused
    \/ RevertStart
    \/ ScanLine
    \/ RevertReturned
    \/ RevertWriteVersion
    \/ RevertRename
    \/ runWorkersReturn
    \/ UnswapWorker(1)

SpecRevertLog == InitRevertLog /\ [][NextRevertLog]_vars

\* ================================================================== claims
RECURSIVE SumOver(_, _)
\* The sum of f(w) over the workers 1..n.
SumOver(f(_), n) == IF n = 0 THEN 0 ELSE f(n) + SumOver(f, n - 1)
SwappedOf(w) == sw[w].swapped
ErroredOf(w) == sw[w].errored
Range(q) == {q[i] : i \in 1..Len(q)}
Last(q) == q[Len(q)]
\* The version of the CID in the last segment of k: -1 when it holds none.
VersionOf(k) ==
    LET c == dsKeyToCid(<<BaseNamespace(k)>>)
    IN  IF c.err THEN -1 ELSE c.version
\* The keys of s that a forward run has to swap.
Candidates(s) == {k \in DOMAIN s : VersionOf(k) >= 1}
\* The last call that ended was a Run.
AfterRun == mode = "none" /\ hist # <<>> /\ Last(hist).op = "run"
\* The call numbered i of hist returned (the process was not killed in it).
ReturnedAt(i) == Len(hist) >= i /\ hist[i].ret.valid
A1 == <<"blocks", "bafA1">>
B1 == <<"blocks", "bafB1">>
C1k == <<"blocks", "Qm1">>

\* C8: when runWorkers has returned, every worker has returned, the count is
\* the sum of the workers' counts, and the error is non-nil exactly when the
\* sum of the workers' error counts is positive.
C8_AggregateResult ==
    (mode = "none" /\ ret.valid /\ \E w \in Workers : sw[w].pc = "done") =>
        /\ \A w \in Workers : sw[w].pc \in {"done", "off"}
        /\ ret.count = SumOver(SwappedOf, NWorkers)
        /\ ret.err <=> (SumOver(ErroredOf, NWorkers) > 0)
\* Both workers swapped keys, one of them counted an error, and runWorkers
\* returned the count with the error.
C8_Witness ==
    /\ mode = "none" /\ ret.valid /\ ret.err
    /\ \A w \in Workers : sw[w].pc = "done" /\ sw[w].swapped >= 1
    /\ ret.count >= 3

\* The calls 1 and 2 of hist are two real runs that returned, the first
\* without an error.
TwoRuns ==
    /\ ReturnedAt(1) /\ hist[1].op = "run" /\ ~hist[1].dryRun
    /\ ~hist[1].ret.err
    /\ ReturnedAt(2) /\ hist[2].op = "run" /\ ~hist[2].dryRun

\* C2: two version >= 1 keys A1 and B1 of the same hash and value: without
\* failures Run(false) ends with the value at the multihash key and neither
\* A1 nor B1; the Revert that follows, over the records of the keys, ends
\* with the value at A1 and at B1, no multihash key, every record counted
\* and a nil error, for each sync threshold.
C2_Collapse ==
    (fails = 0 /\ kills = 0 /\ {A1, B1} \subseteq DOMAIN store0
       /\ ReturnedAt(1) /\ hist[1].op = "run" /\ ~hist[1].dryRun) =>
        /\ Has(hist[1].store, C1k)
        /\ hist[1].store[C1k] = store0[A1]
        /\ ~Has(hist[1].store, A1)
        /\ ~Has(hist[1].store, B1)
        /\ ~hist[1].ret.err
        /\ (ReturnedAt(2) /\ hist[2].op = "revert") =>
              /\ Has(hist[2].store, A1) /\ hist[2].store[A1] = store0[A1]
              /\ Has(hist[2].store, B1) /\ hist[2].store[B1] = store0[B1]
              /\ ~Has(hist[2].store, C1k)
              /\ ~hist[2].ret.err
              /\ hist[2].ret.count = Len(RecordsFrom(store0, 1))
\* The store held A1 and B1 only, the threshold is 1 (the first record's
\* flush deletes the multihash key before the second record is taken), and
\* the Revert returned nil.
C2_Witness ==
    /\ fails = 0 /\ kills = 0 /\ SyncSize = 1
    /\ DOMAIN store0 = {A1, B1}
    /\ ReturnedAt(2) /\ hist[2].op = "revert" /\ ~hist[2].ret.err
    /\ DOMAIN hist[2].store = {A1, B1}

\* C3: after a Run(false) that returned nil, a second Run(false) over the
\* same store and prefix returns 0 and leaves the store as the first left it;
\* it returns nil when no store operation of its own (the query, an entry of
\* its result, one of the two final Syncs) fails, and an error when one does.
C3_Idempotent ==
    TwoRuns =>
        /\ hist[2].ret.count = 0
        /\ hist[2].store = hist[1].store
        /\ hist[2].ret.err <=> (hist[2].fails > hist[1].fails)
\* The first run swapped three keys and the second returned 0 and nil.
C3_Witness ==
    /\ TwoRuns
    /\ hist[1].ret.count = 3
    /\ hist[2].ret.count = 0 /\ ~hist[2].ret.err

\* C4: a worker deletes a key only after it Put the key's value under the
\* replacement key and a later Sync of its own returned without error, and
\* never in a flush whose Sync failed; the keys pending deletion are keys
\* whose value it has Put under the replacement key.
C4_SyncBeforeDelete ==
    \A w \in Workers :
        /\ sw[w].badDel = {}
        /\ Range(sw[w].toDelete) \subseteq sw[w].put
        /\ sw[w].pc = "del" => sw[w].flushOk
\* A worker whose earlier flush failed is deleting two pending keys.
C4_Witness ==
    \E w \in Workers :
        /\ sw[w].pc = "del" /\ sw[w].i = 2
        /\ sw[w].errored >= 1

\* C6: in a Run, dry or real, no record sent on SwapCh has a version-0 key
\* (or a key holding no CID) as Old, and no such key is passed to swap,
\* queued for deletion, or touched: it stays in the store.
C6_Version0Exclusion ==
    ((mode = "run" \/ AfterRun) /\ \A i \in 1..Len(hist) : hist[i].op = "run")
    =>  /\ \A i \in 1..Len(sent) : VersionOf(sent[i].Old) >= 1
        /\ \A w \in Workers :
              /\ sw[w].old # NoKey => VersionOf(sw[w].old) >= 1
              /\ \A k \in Range(sw[w].toDelete) \cup sw[w].put :
                    VersionOf(k) >= 1
        /\ \A k \in mutated : VersionOf(k) >= 1
        /\ \A k \in DOMAIN store0 :
              VersionOf(k) < 1 => Has(store, k) /\ store[k] = store0[k]
\* A real run over a store holding the version-0 key of h1 and a version-1
\* key of h1 has returned, and a record was sent.
C6_Witness ==
    /\ AfterRun /\ ~dryRun /\ ret.valid
    /\ {C1k, A1} \subseteq DOMAIN store0
    /\ Len(sent) >= 1

\* C7: a dry run issues no Get, Put, Delete or Sync, so the store stays as it
\* was; without failures it counts every version >= 1 key and, when SwapCh
\* is set, sends the record of each of them once.
DryPcs == {"off", "recv", "send", "ret", "ret2", "done"}
C7_DryRunChangesNothing ==
    /\ (mode = "run" /\ dryRun) =>
          /\ store = store0 /\ disk = store0
          /\ \A w \in Workers : sw[w].pc \in DryPcs /\ sw[w].put = {}
    /\ (AfterRun /\ dryRun) => store = store0 /\ disk = store0
    /\ (AfterRun /\ dryRun /\ ret.valid /\ fails = 0) =>
          /\ ret.count = Cardinality(Candidates(store0))
          /\ cswap.SwapCh =>
                /\ Len(sent) = ret.count
                /\ Range(sent) =
                     {Swap(k, Classify(k).newKey) : k \in Candidates(store0)}
\* A dry run with SwapCh set has returned 3 and sent 3 records.
C7_Witness ==
    /\ AfterRun /\ dryRun /\ ret.valid /\ cswap.SwapCh
    /\ ret.count = 3 /\ Len(sent) = 3

\* C9: a Revert was killed half-way and Revert is run again over the same
\* records, each of them either already reverted (its old key is there and
\* its new key is not) or still to revert (its new key is there); nothing
\* fails.  As stated, the second Revert returns nil.
C9_HalfwayRevert ==
    (/\ Len(hist) = 3
     /\ hist[2].op = "revert" /\ ~hist[2].ret.valid
     /\ hist[3].op = "revert" /\ hist[3].ret.valid
     /\ hist[3].fails = 0
     /\ \A rec \in Range(RecordsFrom(store0, 1)) :
           \/ Has(hist[2].store, rec.Old) /\ ~Has(hist[2].store, rec.New)
           \/ Has(hist[2].store, rec.New))
    => ~hist[3].ret.err

\* The calls of Migration.Apply and Migration.Revert that ended, in order.
IsMigrationCall(e) == e.op \in {"apply", "mrevert"}
MigrationHist == SelectSeq(hist, IsMigrationCall)
\* The lines a scanner reads from the log as it stands.
LogLines == Range(LinesOf(file, <<>>))
\* No Migration.Revert has been called yet.
OnlyApplies ==
    /\ mpc \notin {"revert", "version8", "rename"}
    /\ \A i \in 1..Len(hist) : hist[i].op \notin {"revert", "mrevert"}

\* C1: an Apply and then a Revert, both without a failure and both returning
\* nil, leave the store with the keys and values it had before the Apply.
C1_RoundTrip ==
    (/\ fails = 0 /\ kills = 0
     /\ Len(MigrationHist) >= 2
     /\ MigrationHist[1].op = "apply" /\ ~MigrationHist[1].ret.err
     /\ MigrationHist[2].op = "mrevert" /\ ~MigrationHist[2].ret.err)
    => MigrationHist[2].store = store0

\* C5: while only Apply has been called (and killed, and called again), every
\* key a real run has Put under its new key or deleted is a line of the log
\* file, and during a real run nothing is left in the writer's buffer and
\* the key of every record the dry runs sent has been written to the file.
C5_LogCoversMutations ==
    OnlyApplies =>
        /\ mutated \subseteq LogLines
        /\ mpc \in {"real", "realRun"} =>
              /\ buf = <<>>
              /\ \A i \in 1..Len(sent) : sent[i].Old \in Range(file)

\* C10: Migration.Revert gets to write version 8 and to rename the log only
\* when every line of the log was read and sent as a record and the reverts
\* returned no error.
C10_ConsumedOnlyOnFullSuccess ==
    mpc \in {"version8", "rename"} =>
        /\ scanQ = <<>>
        /\ ~scanCut
        /\ ~scannerErr
        /\ ~ret.err

\* C11: in a real run without failures, a worker that is about to take the
\* next key has a byte counter below the threshold, and when a flush has
\* emptied its pending list the deletions of that flush are persisted: the keys
\* it has swapped are neither in the store nor on disk; the same holds when
\* the worker has returned.
C11_ThresholdFlush ==
    (mode = "run" /\ ~dryRun /\ fails = 0) =>
        \A w \in Workers :
            /\ sw[w].pc \in {"recv", "send"} =>
                  /\ sw[w].curSyncSize < SyncSize
                  /\ sw[w].toDelete = <<>> =>
                        \A k \in sw[w].put : ~Has(store, k) /\ ~Has(disk, k)
            /\ sw[w].pc \in {"ret", "ret2", "done"} =>
                  /\ sw[w].toDelete = <<>>
                  /\ \A k \in sw[w].put : ~Has(store, k) /\ ~Has(disk, k)

\* C12: when the scanner stopped at a line that holds no CID (no read of the
\* log failed), the records channel was closed, and once CidSwapper.Revert
\* has returned Migration.Revert returns a non-nil error.
C12_ScanErrorReported ==
    /\ (mpc = "revert" /\ scannerErr) => unswapClosed
    /\ (/\ mpc = "idle" /\ scanCut /\ fails = 0
        /\ MigrationHist # <<>>
        /\ Last(MigrationHist).op = "mrevert")
       => Last(MigrationHist).ret.err

\* C13: during one Revert (no store operation failing) an entry of the
\* de-duplication map, once made, is never replaced, and a record that found its new key missing reads the
\* value from the old key of the first record restored for that new key.
C13_FirstSuccessWins ==
    [][(mode = "revert" /\ mode' = "revert" /\ fails' = 0) =>
          \A k \in DOMAIN unswappedMap :
              /\ k \in DOMAIN unswappedMap'
              /\ unswappedMap'[k] = unswappedMap[k]]_vars

\* The failures injected before the call numbered i of hist began.
FailsBefore(i) == IF i = 1 THEN 0 ELSE hist[i - 1].fails

\* C14: a store operation that fails during a Run or a Revert is counted (the
\* call returns a non-nil error), no worker stops at it: when the call has
\* returned every item of the result stream or of the record channel has
\* been taken.
C14_NoEarlyAbort ==
    /\ \A i \in 1..Len(hist) :
          (hist[i].op \in {"run", "revert"} /\ hist[i].ret.valid
             /\ hist[i].fails > FailsBefore(i)) => hist[i].ret.err
    /\ (mode = "none" /\ ret.valid) => resultsCh = <<>> /\ unswapCh = <<>>

\* The engine with its goroutines scheduled: a step that can be taken is
\* taken in the end.
SpecFair == Init /\ [][Next]_vars /\ WF_vars(Next)
\* C14, the termination part: every call of the caller returns in the end.
C14_Terminates == <>[](plan = <<>> /\ mode = "none")

\* A real Run is in progress or has just returned.
InRealRun == (mode = "run" \/ AfterRun) /\ ~dryRun
\* The new keys worker w has Put in a Run.
NewPut(w) == {Classify(k).newKey : k \in sw[w].put}
\* The store keys worker w has read, written or deleted in a Run.
Touched(w) == sw[w].got \cup NewPut(w)

\* C15 as stated: in a real Run the keys one worker reads, writes or deletes
\* are disjoint from those of every other worker, the new keys included.
C15_DisjointKeys ==
    InRealRun =>
        \A w1, w2 \in Workers : w1 # w2 => Touched(w1) \cap Touched(w2) = {}
\* C15 amended: in a real Run the old keys one worker reads and deletes are
\* touched by no other worker, neither as its old keys nor as the new keys
\* it Puts; two workers may Put the same new key (for old keys of the same
\* hash), and every new key that was Put holds the value of each old key
\* swapped for it.
C15_DisjointOldKeys ==
    InRealRun =>
        /\ \A w1, w2 \in Workers :
              w1 # w2 =>
                 /\ sw[w1].got \cap sw[w2].got = {}
                 /\ sw[w1].got \cap NewPut(w2) = {}
        /\ \A w \in Workers :
              \A k \in sw[w].put :
                 /\ Has(store, Classify(k).newKey)
                 /\ store[Classify(k).newKey] = store0[k]
\* Two workers have each swapped a key and Put the same new key.
C15_Witness ==
    /\ InRealRun
    /\ sw[1].put # {} /\ sw[2].put # {}
    /\ NewPut(1) \cap NewPut(2) # {}

\* The workers that hold a record they have not sent yet.
Sending == {w \in Workers : sw[w].pc = "send"}

\* C16: in a dry run with SwapCh set, no record is sent twice, every record
\* sent is that of a version >= 1 key under the prefix with its parent
\* namespace + multihash as New, the workers' counts add up to the records
\* sent or about to be sent, and when the run has returned (the query and
\* its entries not failing) the count is the number of version >= 1 keys under
\* the prefix, each of which has its record sent.
C16_ExactlyOnce ==
    ((mode = "run" \/ AfterRun) /\ dryRun /\ cswap.SwapCh) =>
        /\ \A i, j \in 1..Len(sent) : i # j => sent[i].Old # sent[j].Old
        /\ \A i \in 1..Len(sent) :
              /\ sent[i].Old \in Candidates(store)
              /\ IsUnder(sent[i].Old, cswap.Prefix)
              /\ sent[i].New =
                   Child(Parent(sent[i].Old),
                         MultihashToDsKey(
                            dsKeyToCid(<<BaseNamespace(sent[i].Old)>>).hash))
        /\ Len(sent) + Cardinality(Sending) = SumOver(SwappedOf, NWorkers)
        /\ (AfterRun /\ ret.valid /\ fails = 0) =>
              /\ ret.count =
                   Cardinality({k \in Candidates(store) :
                                   IsUnder(k, cswap.Prefix)})
              /\ {sent[i].Old : i \in 1..Len(sent)} =
                   {k \in Candidates(store) : IsUnder(k, cswap.Prefix)}
\* A dry run over a store holding version >= 1 keys, a version-0 key and a key
\* that is no CID has returned; each worker counted keys and a record was
\* sent for each of the three version >= 1 keys.
C16_Witness ==
    /\ AfterRun /\ dryRun /\ cswap.SwapCh /\ ret.valid /\ fails = 0
    /\ DOMAIN store0 = BlockKeys
    /\ \A w \in Workers : sw[w].swapped >= 1
    /\ ret.count = 3 /\ Len(sent) = 3

\* The lines of the log, in order.
LogSeq == LinesOf(file, <<>>)
\* CidSwapper.Revert has returned to Migration.Revert, which read the whole
\* log; nothing failed.
RevertedWholeLog ==
    /\ mpc = "revert" /\ mode = "none" /\ ret.valid
    /\ fails = 0 /\ ~scanCut
    /\ Len(MigrationHist) = 0

\* C17: Revert over a log that lists old keys more than once returns nil and
\* leaves the store that Revert over the log with each key listed once
\* leaves: every old key of the log with its value, and no new key; for each
\* sync threshold.
C17_RepeatedLines ==
    RevertedWholeLog =>
        /\ ~ret.err
        /\ store = StoreOver(OldKeysOf(LogSeq))
        /\ disk = store
\* The log lists a key of h1 twice and another key of h1 between the two,
\* and the Revert over it has returned nil.
C17_Witness ==
    /\ RevertedWholeLog
    /\ Len(LogSeq) = 3
    /\ LogSeq[1] = LogSeq[3] /\ LogSeq[1] # LogSeq[2]
    /\ Cardinality(DOMAIN store0) = 1
    /\ ~ret.err /\ ret.count = 3

\* In the first Revert over the store Apply left, the old keys whose value
\* has been written back and whose new key is n.
RestoredFor(n) ==
    {k \in DOMAIN store : VersionOf(k) >= 1 /\ SwapOfLine(k).New = n}

\* C18: in a Revert in which store operations may fail, a record that finds
\* no value at its new key (none of its own operations failing) is counted
\* as an error only when no earlier record with that new key has had its
\* value written to its old key.
C18_CollapseRecovery ==
    [][\A w \in Workers :
          (/\ mode = "revert" /\ Len(MigrationHist) = 0
           /\ sw[w].pc \in {"get", "dget"}
           /\ ~Has(store, sw[w].old)
           /\ fails' = fails
           /\ sw'[w].errored > sw[w].errored)
          => RestoredFor(sw[w].old) = {}]_vars

\* The value v is under the key x in the store and on disk: a kill leaves it.
Durable(x, v) ==
    /\ Has(store, x) /\ store[x] = v
    /\ Has(disk, x) /\ disk[x] = v
\* The first call, a Run(false), is in progress, or it has ended (it
\* returned, or the process was killed in it) and no other call has begun.
FirstRun ==
    \/ Len(hist) = 0
    \/ Len(hist) = 1 /\ mode = "none" /\ hist[1].op = "run"

\* C19: in every state of a real Run, and after a kill of the process in it,
\* the value of every version >= 1 key of the initial store is durable under
\* that key or under its new key.
C19_NoDataLoss ==
    FirstRun =>
        \A k \in Candidates(store0) :
            \/ Durable(k, store0[k])
            \/ Durable(Classify(k).newKey, store0[k])
\* The process was killed in the Run when one key had been swapped and
\* deleted and another was still under its old key only.
C19_Witness ==
    /\ kills = 1
    /\ Len(hist) = 1 /\ hist[1].op = "run" /\ ~hist[1].ret.valid
    /\ \E k \in Candidates(store0) : ~Has(store, k)
    /\ \E k \in Candidates(store0) :
          Has(store, k) /\ ~Has(store, Classify(k).newKey)

\* The store at the start of the call numbered i of hist.
StartStore(i) == IF i = 1 THEN store0 ELSE hist[i - 1].store

\* C20: a Run(false) that returned nil left no version >= 1 key, left the
\* value of every version >= 1 key it found under the key's new key, returned
\* their number, and its workers' pending lists are empty; a Revert that
\* returned nil left the value of every record at the record's old key and
\* returned the number of records.
C20_NilMeansComplete ==
    /\ \A i \in 1..Len(hist) :
          (hist[i].ret.valid /\ ~hist[i].ret.err) =>
             /\ (hist[i].op = "run" /\ ~hist[i].dryRun) =>
                   /\ Candidates(hist[i].store) = {}
                   /\ \A k \in Candidates(StartStore(i)) :
                         /\ Has(hist[i].store, Classify(k).newKey)
                         /\ hist[i].store[Classify(k).newKey] = StartStore(i)[k]
                   /\ hist[i].ret.count = Cardinality(Candidates(StartStore(i)))
             /\ hist[i].op = "revert" =>
                   /\ \A rec \in Range(RecordsFrom(store0, 1)) :
                         /\ Has(hist[i].store, rec.Old)
                         /\ hist[i].store[rec.Old] = store0[rec.Old]
                   /\ hist[i].ret.count = Len(RecordsFrom(store0, 1))
    /\ (AfterRun /\ ~dryRun /\ ret.valid /\ ~ret.err) =>
          \A w \in Workers : sw[w].toDelete = <<>>
\* A Run(false) swapped keys and returned nil, a failing store operation
\* made the first Revert return an error, and the second Revert returned nil.
C20_Witness ==
    /\ Len(hist) = 3
    /\ hist[1].op = "run" /\ ~hist[1].ret.err /\ hist[1].ret.count >= 1
    /\ hist[2].op = "revert" /\ hist[2].ret.err
    /\ hist[3].op = "revert" /\ ~hist[3].ret.err
====
